---- MODULE Spec2Model ----
(***************************************************************************)
(* js-functions.cpp: JS::map, JS::filter and JS::reduce over std::vector,  *)
(* and the caller (main) that pipes one call's result into the next.       *)
(*                                                                         *)
(* One call is modelled loop iteration by loop iteration: Call is the      *)
(* function entry (the declaration of the local `result`), each Step* is   *)
(* one iteration of the body (the callback invocation and the push_back or *)
(* assignment that follows it), Return is `return result`.  A callback     *)
(* that throws unwinds the frame: the local `result` is destroyed and the  *)
(* caller receives the exception instead of a value.                       *)
(***************************************************************************)
EXTENDS Integers, Sequences, FiniteSets, TLC

\* ------------------------------------------------------------------ bounds
MaxLen == 3        \* longest generated input vector
MaxStages == 3     \* longest pipeline of calls fed from one another

\* ------------------------------------------------------- the record type
Person(firstName, lastName, age) ==
    [firstName |-> firstName, lastName |-> lastName, age |-> age]

Butter == Person("Butter", "Riolu", 22)
Farmer == Person("Farmer", "Joes", 21)
Juke   == Person("Juke", "Duke", 21)
Life   == Person("Life", "Happens", 24)
Looped == Person("Looped", "Needs Help", 18)
Land   == Person("Land", "Woof", 21)

\* main's vector
people == <<Butter, Farmer, Juke, Life, Looped, Land>>

\* the elements the generated vectors are drawn from
Items == {Butter, Looped}

SeqsUpTo(n) == UNION {[1..k -> Items] : k \in 0..n}

\* every vector a caller hands to an operation first
Inputs == SeqsUpTo(MaxLen) \cup {people}

\* ------------------------------------------------------------- callbacks
\* What one invocation of a callback yields: a value, or an exception.
Ok(v) == [ok |-> TRUE, val |-> v]
Thrown(e) == [ok |-> FALSE, val |-> e]

\* std::function<Product(const Item&, int)>
\*   fullName     main's lambda, "N. First Last"
\*   nameOrThrow  the same, but throws for a person under 21
ConvertersIdx == {"fullName", "nameOrThrow"}

FullName(dude, idx) ==
    ToString(idx + 1) \o ". " \o dude.firstName \o " " \o dude.lastName

ConverterIdx(c, dude, idx) ==
    CASE c = "fullName"    -> Ok(FullName(dude, idx))
      [] c = "nameOrThrow" -> IF dude.age < 21 THEN Thrown("under 21")
                                               ELSE Ok(FullName(dude, idx))

\* std::function<Product(const Item&)>
Converters == {"firstNameOf"}

Converter(c, dude) == Ok(dude.firstName)

\* std::function<bool(const Item&)>
\*   canDrink      main's lambda, age >= 21
\*   always, never constant predicates
\*   drinkOrThrow  throws for a person under 21
Conditions == {"canDrink", "always", "never", "drinkOrThrow"}

Condition(c, dude) ==
    CASE c = "canDrink"     -> Ok(dude.age >= 21)
      [] c = "always"       -> Ok(TRUE)
      [] c = "never"        -> Ok(FALSE)
      [] c = "drinkOrThrow" -> IF dude.age < 21 THEN Thrown("under 21")
                                                ELSE Ok(TRUE)

\* std::function<bool(const Item&, int)>
\*   everyEven    main's lambda, idx % 2 == 0
\*   canDrinkIdx  age >= 21, the index ignored
\*   throwAtOne   throws at index 1, true elsewhere
ConditionsIdx == {"everyEven", "canDrinkIdx", "throwAtOne"}

ConditionIdx(c, dude, idx) ==
    CASE c = "everyEven"   -> Ok(idx % 2 = 0)
      [] c = "canDrinkIdx" -> Ok(dude.age >= 21)
      [] c = "throwAtOne"  -> IF idx = 1 THEN Thrown("index 1") ELSE Ok(TRUE)

\* std::function<Product(Product&, const Item&)>
\*   sumAge       main's lambda, Product = double
\*   sumOrThrow   the same, but throws for a person under 21
\*   joinFirst    Product = std::string, appends the first name
Reducers == {"sumAge", "sumOrThrow", "joinFirst"}

Reducer(c, acc, dude) ==
    CASE c = "sumAge"     -> Ok(acc + dude.age)
      [] c = "sumOrThrow" -> IF dude.age < 21 THEN Thrown("under 21")
                                              ELSE Ok(acc + dude.age)
      [] c = "joinFirst"  -> Ok(acc \o dude.firstName)

\* The values `Product result;` can hold before anything is assigned to it.
\* A class type is default-constructed (std::string: empty).  A double is
\* left uninitialized: reading it is undefined, and the build can produce
\* any value, zero among them.
IndeterminateDouble == {0, 1, 1000}

InitialProduct(c) ==
    IF c = "joinFirst" THEN {""} ELSE IndeterminateDouble

\* The operations, and the callbacks each accepts.
Ops == {"mapIdx", "mapElem", "filterElem", "filterIdx", "reduce"}

Callbacks(o) ==
    CASE o = "mapIdx"     -> ConvertersIdx
      [] o = "mapElem"    -> Converters
      [] o = "filterElem" -> Conditions
      [] o = "filterIdx"  -> ConditionsIdx
      [] o = "reduce"     -> Reducers

\* ----------------------------------------------------------------- state
VARIABLES
    pc,       \* "idle", "running", "returned", "failed", "ill_formed"
    op,       \* the operation called
    cb,       \* the callback passed
    values,   \* the caller's vector, passed by const reference
    values0,  \* its contents when the call was made
    idx,      \* the loop's position
    result,   \* the local `result`: <<>> outside a call, <<its value>> inside
    calls,    \* the callback invocations of this call, in order
    ret,      \* what the caller received: <<>> or <<value>>
    raised,   \* the exception the caller received: <<>> or <<what>>
    chain     \* the earlier calls of this pipeline: [op, cb, input]

vars == <<pc, op, cb, values, values0, idx, result, calls, ret, raised, chain>>

\* One callback invocation: the element, its position in the input, and the
\* index argument passed (-1 for the callbacks that take none).
Invocation(item, pos, arg) == [item |-> item, pos |-> pos, arg |-> arg]

Init ==
    /\ pc = "idle"
    /\ op = "none"
    /\ cb = "none"
    /\ values \in Inputs
    /\ values0 = values
    /\ idx = 0
    /\ result = <<>>
    /\ calls = <<>>
    /\ ret = <<>>
    /\ raised = <<>>
    /\ chain = <<>>

\* -------------------------------------------------------------- the calls
\* Function entry of an operation whose body compiles: the local `result`
\* is declared and the loop starts at the first element.
Enter(o, c, r) ==
    /\ pc = "idle"
    /\ pc' = "running"
    /\ op' = o
    /\ cb' = c
    /\ values0' = values
    /\ idx' = 0
    /\ result' = <<r>>
    /\ calls' = <<>>
    /\ ret' = <<>>
    /\ raised' = <<>>
    /\ UNCHANGED <<values, chain>>

CallMapIdx == \E c \in ConvertersIdx : Enter("mapIdx", c, <<>>)

\* The element-only map binds `Item& item` to the elements of a
\* `const std::vector<Item>&`: every instantiation is rejected by the
\* compiler, so a call of it never runs and yields nothing.
CallMapElem ==
    \E c \in Converters :
        /\ pc = "idle"
        /\ pc' = "ill_formed"
        /\ op' = "mapElem"
        /\ cb' = c
        /\ values0' = values
        /\ UNCHANGED <<values, idx, result, calls, ret, raised, chain>>

CallFilterElem == \E c \in Conditions : Enter("filterElem", c, <<>>)

CallFilterIdx == \E c \in ConditionsIdx : Enter("filterIdx", c, <<>>)

CallReduce ==
    \E c \in Reducers : \E r \in InitialProduct(c) : Enter("reduce", c, r)

\* mutant: the exception is caught and what was built so far is returned
Unwind_partial(inv, out) ==
    /\ pc' = "returned"
    /\ calls' = Append(calls, inv)
    /\ ret' = result
    /\ result' = <<>>
    /\ UNCHANGED <<op, cb, values, values0, idx, raised, chain>>

\* The callback threw: the frame unwinds, `result` is destroyed, and the
\* exception reaches the caller as it was thrown.
Unwind(inv, out) ==
    /\ pc' = "failed"
    /\ calls' = Append(calls, inv)
    /\ result' = <<>>
    /\ raised' = <<out.val>>
    /\ UNCHANGED <<op, cb, values, values0, idx, ret, chain>>

\* mutant: the loop steps over every other element
Advance_skip(inv, r) ==
    /\ pc' = "running"
    /\ calls' = Append(calls, inv)
    /\ result' = <<r>>
    /\ idx' = idx + 2
    /\ UNCHANGED <<op, cb, values, values0, ret, raised, chain>>

\* The callback returned and the body stored r: on to the next element.
Advance(inv, r) ==
    /\ pc' = "running"
    /\ calls' = Append(calls, inv)
    /\ result' = <<r>>
    /\ idx' = idx + 1
    /\ UNCHANGED <<op, cb, values, values0, ret, raised, chain>>

\* mutant: the loops stop one element early
LoopEnd_short == Len(values) - 1

\* where the loops stop: idx < values.size(), or the end of the range
LoopEnd == Len(values)

InLoop(o) == pc = "running" /\ op = o /\ idx < LoopEnd

\* mutant: the converter is given a one-based index
MapIdxArg_oneBased == idx + 1

\* the index argument of the index-aware converter
MapIdxArg == idx

\* result.push_back(converter(values[idx], idx));
StepMapIdx ==
    /\ InLoop("mapIdx")
    /\ LET item == values[idx + 1]
           inv  == Invocation(item, idx, MapIdxArg)
           out  == ConverterIdx(cb, item, MapIdxArg)
       IN IF out.ok THEN Advance(inv, Append(result[1], out.val))
                    ELSE Unwind(inv, out)

\* mutant: the element is kept when the condition is false
StepFilterElem_inverted ==
    /\ pc = "running" /\ op = "filterElem" /\ idx < Len(values)
    /\ LET value == values[idx + 1]
           inv   == Invocation(value, idx, -1)
           out   == Condition(cb, value)
       IN /\ out.ok
          /\ pc' = "running"
          /\ calls' = Append(calls, inv)
          /\ result' = <<IF out.val = FALSE THEN Append(result[1], value)
                                            ELSE result[1]>>
          /\ idx' = idx + 1
          /\ UNCHANGED <<op, cb, values, values0, ret, raised, chain>>

\* if (condition(value) == true) result.push_back(value);
StepFilterElem ==
    /\ InLoop("filterElem")
    /\ LET value == values[idx + 1]
           inv   == Invocation(value, idx, -1)
           out   == Condition(cb, value)
       IN IF out.ok
          THEN Advance(inv, IF out.val = TRUE THEN Append(result[1], value)
                                              ELSE result[1])
          ELSE Unwind(inv, out)

\* mutant: the condition is given the element's position in the output
FilterIdxArg_output == Len(result[1])

\* the index argument of the index-aware condition
FilterIdxArg == idx

\* mutant: the filter works in place, erasing the rejected elements from
\* the vector it was handed
StepFilterIdx_inPlace ==
    /\ pc = "running" /\ op = "filterIdx" /\ idx < Len(values)
    /\ LET value == values[idx + 1]
           inv   == Invocation(value, idx, idx)
           out   == ConditionIdx(cb, value, idx)
       IN /\ out.ok
          /\ pc' = "running"
          /\ calls' = Append(calls, inv)
          /\ IF out.val = TRUE
             THEN /\ idx' = idx + 1
                  /\ result' = <<Append(result[1], value)>>
                  /\ values' = values
             ELSE /\ idx' = idx
                  /\ result' = result
                  /\ values' = SubSeq(values, 1, idx)
                                  \o SubSeq(values, idx + 2, Len(values))
          /\ UNCHANGED <<op, cb, values0, ret, raised, chain>>

\* if (condition(values[idx], idx) == true) result.push_back(values[idx]);
StepFilterIdx ==
    /\ InLoop("filterIdx")
    /\ LET value == values[idx + 1]
           inv   == Invocation(value, idx, FilterIdxArg)
           out   == ConditionIdx(cb, value, FilterIdxArg)
       IN IF out.ok
          THEN Advance(inv, IF out.val = TRUE THEN Append(result[1], value)
                                              ELSE result[1])
          ELSE Unwind(inv, out)

\* result = reducer(result, value);
StepReduce ==
    /\ InLoop("reduce")
    /\ LET value == values[idx + 1]
           inv   == Invocation(value, idx, -1)
           out   == Reducer(cb, result[1], value)
       IN IF out.ok THEN Advance(inv, out.val)
                    ELSE Unwind(inv, out)

\* return result;
Return ==
    /\ pc = "running"
    /\ idx >= LoopEnd
    /\ pc' = "returned"
    /\ ret' = result
    /\ result' = <<>>
    /\ UNCHANGED <<op, cb, values, values0, idx, calls, raised, chain>>

\* ------------------------------------------------------------ the caller
\* Between calls nothing of the last call is left but what the caller kept.
Forget ==
    /\ op' = "none"
    /\ cb' = "none"
    /\ idx' = 0
    /\ result' = <<>>
    /\ calls' = <<>>
    /\ ret' = <<>>
    /\ raised' = <<>>

\* The caller passes the vector a filter returned to its next call, as
\* main passes canDrinkAlcohol and then everyEvenPerson.
Pipe ==
    /\ pc = "returned"
    /\ op \in {"filterElem", "filterIdx"}
    /\ Len(chain) + 1 < MaxStages
    /\ pc' = "idle"
    /\ values' = ret[1]
    /\ values0' = ret[1]
    /\ chain' = Append(chain, [op |-> op, cb |-> cb, input |-> values0])
    /\ Forget

\* The caller starts over with another vector of its own, as main goes
\* back to `people` for the reduce.
Restart ==
    /\ pc \in {"returned", "failed", "ill_formed"}
    /\ pc' = "idle"
    /\ \E s \in Inputs : values' = s /\ values0' = s
    /\ chain' = <<>>
    /\ Forget

Step == StepMapIdx \/ StepFilterElem \/ StepFilterIdx \/ StepReduce \/ Return

Next ==
    \/ CallMapIdx
    \/ CallMapElem
    \/ CallFilterElem
    \/ CallFilterIdx
    \/ CallReduce
    \/ StepMapIdx
    \/ StepFilterElem
    \/ StepFilterIdx
    \/ StepReduce
    \/ Return
    \/ Pipe
    \/ Restart

Spec == Init /\ [][Next]_vars

\* A call runs to completion: nothing suspends or interleaves it.
FairSpec == Spec /\ WF_vars(Step)

\* ============================================================ the claims
Returned(o) == pc = "returned" /\ op = o

Filters == {"filterElem", "filterIdx"}

\* The Product type's default value: 0 for double, "" for std::string.
\* What the accumulation would be from it, left to right.
RECURSIVE LeftFold(_, _, _)
LeftFold(c, d, S) ==
    IF S = <<>> THEN d
    ELSE Reducer(c, LeftFold(c, d, SubSeq(S, 1, Len(S) - 1)), S[Len(S)]).val

\* C1: reduce on an empty sequence returns the default value of the Product
\* type (0 for a numeric Product such as double), never an error and never
\* any other value.
C1_ReduceEmptyIsDefault ==
    (Returned("reduce") /\ values0 = <<>>) =>
        /\ Len(ret) = 1
        /\ IF cb = "joinFirst" THEN ret[1] = "" ELSE ret[1] = 0

\* C2: reduce(S, r) is the left fold of r over S from the default value of
\* the Product type; the six ages of main's vector sum to exactly 127.
\* (Stated for the non-empty sequences; C1 has the empty one.)
C2_ReduceIsLeftFold ==
    (Returned("reduce") /\ values0 # <<>>) =>
        /\ Len(ret) = 1
        /\ IF cb = "joinFirst" THEN ret[1] = LeftFold(cb, "", values0)
                               ELSE ret[1] = LeftFold(cb, 0, values0)
        /\ (cb = "sumAge" /\ values0 = people) => ret[1] = 127

\* ------------------------------------------------- what a filter should keep
\* The predicate's verdict on the element at zero-based position i.
Holds(o, c, item, i) ==
    IF o = "filterElem" THEN Condition(c, item).val = TRUE
                        ELSE ConditionIdx(c, item, i).val = TRUE

\* The positions (one-based) of S whose elements the predicate accepts.
KeptPositions(o, c, S) == {k \in 1..Len(S) : Holds(o, c, S[k], k - 1)}

\* The j-th smallest member of K.
NthOf(K, j) == CHOOSE k \in K : Cardinality({m \in K : m <= k}) = j

\* The subsequence of S at the positions K, in the order of S.
Subsequence(S, K) == [j \in 1..Cardinality(K) |-> S[NthOf(K, j)]]

\* A predicate whose verdict does not depend on the index it is given.
IndexFree(o, c) ==
    \/ o = "filterElem"
    \/ \A item \in Items \cup {people[k] : k \in 1..Len(people)} :
         \A i, j \in 0..Len(people) :
            ConditionIdx(c, item, i) = ConditionIdx(c, item, j)

\* The call that just returned is the second of two calls of the same filter
\* with the same predicate, the first one's result its input.
FilteredTwice ==
    /\ pc = "returned"
    /\ op \in Filters
    /\ chain # <<>>
    /\ chain[Len(chain)].op = op
    /\ chain[Len(chain)].cb = cb

\* C3 as stated: filter(filter(S, p), p) = filter(S, p) for every predicate,
\* element-only or index-aware.
C3_FilterIdempotent ==
    FilteredTwice => (Len(ret) = 1 /\ ret[1] = values0)

\* C3 as amended: filter(filter(S, p), p) = filter(S, p) for every predicate
\* whose verdict does not depend on the index argument (every element-only
\* predicate, and an index-aware one that ignores its index).
C3_FilterIdempotentIndexFree ==
    (FilteredTwice /\ IndexFree(op, cb)) => (Len(ret) = 1 /\ ret[1] = values0)

\* an index-aware predicate that ignores its index, applied a second time to
\* what the first application left of a longer vector
C3_Witness ==
    /\ FilteredTwice
    /\ cb = "canDrinkIdx"
    /\ Len(values0) < Len(chain[Len(chain)].input)
    /\ Len(values0) >= 2

\* C4: both filter variants return exactly the subsequence of S whose
\* elements the predicate accepts (on the element, or on the element and its
\* input index): no longer than S, every kept element accepted, no accepted
\* element dropped, the order of S kept; an always-true predicate yields a
\* copy of S and a never-true one the empty sequence.
C4_FilterIsAcceptedSubsequence ==
    (pc = "returned" /\ op \in Filters) =>
        /\ Len(ret) = 1
        /\ Len(ret[1]) <= Len(values0)
        /\ ret[1] = Subsequence(values0, KeptPositions(op, cb, values0))
        /\ \A j \in 1..Len(ret[1]) :
              \E k \in j..Len(values0) :
                 /\ ret[1][j] = values0[k]
                 /\ Holds(op, cb, values0[k], k - 1)
        /\ cb = "always" => ret[1] = values0
        /\ cb = "never" => ret[1] = <<>>

\* a filter that kept some elements and dropped an earlier one
C4_Witness ==
    /\ pc = "returned"
    /\ op \in Filters
    /\ Len(ret[1]) >= 1
    /\ Len(ret[1]) < Len(values0)
    /\ ret[1][1] # values0[1]

\* The transform is total on S: it throws for no element.
TotalMap(o, c, S) ==
    \A k \in 1..Len(S) :
        IF o = "mapIdx" THEN ConverterIdx(c, S[k], k - 1).ok
                        ELSE Converter(c, S[k]).ok

\* C5: both map variants return a sequence of length exactly N with
\* output[i] = f(S[i]) (element-only) or f(S[i], i) (index-aware) for every
\* i in [0, N), N = 0 included.
C5_MapLengthAndElements ==
    (/\ op \in {"mapIdx", "mapElem"}
     /\ pc \notin {"idle", "running"}
     /\ TotalMap(op, cb, values0)) =>
        /\ pc = "returned"
        /\ Len(ret) = 1
        /\ Len(ret[1]) = Len(values0)
        /\ \A k \in 1..Len(values0) :
              ret[1][k] = IF op = "mapIdx"
                          THEN ConverterIdx(cb, values0[k], k - 1).val
                          ELSE Converter(cb, values0[k]).val

\* C6: at every invocation of the index-aware filter's predicate the index
\* argument is the zero-based position of the element in the input sequence,
\* however many earlier elements were rejected.
C6_FilterIndexIsInputPosition ==
    op = "filterIdx" =>
        \A j \in 1..Len(calls) :
            /\ calls[j].arg = j - 1
            /\ calls[j].item = values0[calls[j].arg + 1]

\* the predicate is called at a position past the length of the output so far
C6_Witness ==
    /\ op = "filterIdx"
    /\ pc = "running"
    /\ calls # <<>>
    /\ calls[Len(calls)].arg > Len(result[1])
    /\ Len(result[1]) >= 1

\* The callback throws for no element of S.
Total(o, c, S) ==
    \A k \in 1..Len(S) :
        CASE o = "mapIdx"     -> ConverterIdx(c, S[k], k - 1).ok
          [] o = "filterElem" -> Condition(c, S[k]).ok
          [] o = "filterIdx"  -> ConditionIdx(c, S[k], k - 1).ok
          [] o = "reduce"     ->
                Reducer(c, IF c = "joinFirst" THEN "" ELSE 0, S[k]).ok
          [] OTHER            -> TRUE

\* The invocations so far are those of positions 0, 1, 2, ... in that order,
\* one each, and a call that returned made one for every element.
OncePerElementAscending ==
    /\ \A j \in 1..Len(calls) :
          calls[j].pos = j - 1 /\ calls[j].item = values0[j]
    /\ pc = "running" => Len(calls) = idx
    /\ pc = "returned" => Len(calls) = Len(values0)

\* C7: in every call of map, filter or reduce whose callback does not fail
\* the callback is invoked exactly N times, once per element, in ascending
\* index order, after which the call terminates.
C7_OncePerElementThenReturns ==
    /\ []OncePerElementAscending
    /\ (pc = "running" /\ Total(op, cb, values0)) ~> (pc = "returned")

\* a call over main's six elements that returned
C7_Witness ==
    /\ pc = "returned"
    /\ Len(values0) = Len(people)
    /\ Len(calls) = Len(people)

\* What the callback does with the element of one invocation.
Outcome(o, c, inv) ==
    CASE o = "mapIdx"     -> ConverterIdx(c, inv.item, inv.arg)
      [] o = "filterElem" -> Condition(c, inv.item)
      [] o = "filterIdx"  -> ConditionIdx(c, inv.item, inv.arg)
      [] o = "reduce"     ->
            Reducer(c, IF c = "joinFirst" THEN "" ELSE 0, inv.item)

\* C8: if the callback fails at element k, the failure reaches the caller
\* as it was thrown, no callback is invoked for the elements after k, and
\* the caller gets no result, neither a partial sequence nor a partial
\* accumulator.
C8_FailurePropagates ==
    /\ \A j \in 1..Len(calls) :
          ~Outcome(op, cb, calls[j]).ok =>
              /\ pc = "failed"
              /\ j = Len(calls)
              /\ ret = <<>>
              /\ result = <<>>
              /\ Len(raised) = 1
              /\ raised[1] = Outcome(op, cb, calls[j]).val
    /\ pc = "failed" =>
          /\ calls # <<>>
          /\ ~Outcome(op, cb, calls[Len(calls)]).ok
          /\ ~ENABLED Step
    /\ pc # "failed" => raised = <<>>

\* a callback that failed with elements already processed and more to come
C8_Witness ==
    /\ pc = "failed"
    /\ Len(calls) >= 2
    /\ Len(calls) < Len(values0)

\* C9: no operation changes its input sequence: whether the call completes
\* or fails the input has the length, elements and order it had before, and
\* what is built (the local result, the returned sequence) is storage of
\* its own: growing it leaves the input as it was.
C9_InputUnchanged ==
    /\ [](values = values0)
    /\ [][(pc = "running") => (values' = values)]_vars

\* a filter that returned fewer elements than its input still holds
C9_Witness ==
    /\ pc = "returned"
    /\ op \in Filters
    /\ Len(ret[1]) >= 1
    /\ Len(ret[1]) < Len(values)

\* The stages of main's pipeline before the map.
MainChain ==
    << [op |-> "filterElem", cb |-> "canDrink", input |-> people],
       [op |-> "filterIdx", cb |-> "everyEven",
        input |-> <<Butter, Farmer, Juke, Life, Land>>] >>

Ages(S) == [k \in 1..Len(S) |-> S[k].age]

\* C10: map(filter(S, p), f) applies f only to the elements p retained, in
\* their retained order, and an index-aware stage sees positions in the
\* sequence it is handed, not positions in S; in main's pipeline the filter
\* by age >= 21 keeps 5 records (ages 22,21,21,24,21), the even-index filter
\* keeps positions 0,2,4 of those (ages 22,21,21), and the index-aware map
\* yields exactly 3 strings numbered 1, 2, 3.
C10_MapAfterFilter ==
    (Returned("mapIdx") /\ chain # <<>>) =>
        LET last == chain[Len(chain)]
            kept == Subsequence(last.input,
                                KeptPositions(last.op, last.cb, last.input))
        IN /\ Len(ret) = 1
           /\ Len(ret[1]) = Len(kept)
           /\ \A j \in 1..Len(kept) :
                 /\ calls[j].item = kept[j]
                 /\ calls[j].arg = j - 1
                 /\ ret[1][j] = ConverterIdx(cb, kept[j], j - 1).val
           /\ (chain[1] = MainChain[1] /\ Len(chain) >= 2) =>
                 Ages(chain[2].input) = <<22, 21, 21, 24, 21>>
           /\ (chain = MainChain /\ cb = "fullName") =>
                 /\ Ages(values0) = <<22, 21, 21>>
                 /\ ret[1] = <<"1. Butter Riolu", "2. Juke Duke", "3. Land Woof">>

\* main's pipeline, run to the end of the map
C10_Witness ==
    /\ Returned("mapIdx")
    /\ chain = MainChain
    /\ cb = "fullName"
    /\ Len(ret[1]) = 3

====
